---- MODULE Spec2Model ----
(***************************************************************************)
(* A model of services/servicenow/service.go: the ServiceNow alert         *)
(* service.  One Alert call is a sequence of steps (preparePost: config    *)
(* load, URL resolution, five template renders, payload construction;      *)
(* then the request set-up with a second config load, and the POST), and   *)
(* Update swaps the stored configuration between any two steps.            *)
(*                                                                         *)
(* Go strings that the code slices (source, template output, alert ID,     *)
(* message) are sequences of bytes.  Strings that are only compared or     *)
(* passed on (credentials, URLs) are TLA+ strings.                         *)
(***************************************************************************)
EXTENDS Integers, Sequences, FiniteSets, TLC

(***************************************************************************)
(* Program constants.                                                      *)
(***************************************************************************)
usualCutoff == 100
MessageKeyCutoff == 1024
DescriptionCutoff == 4000
StatusCreated == 201

\* alert.Level values (github.com/influxdata/kapacitor/alert: OK = iota, ...)
OK == 0
Info == 1
Warning == 2
Critical == 3

\* the goroutines that call Alert
Callers == {"g1", "g2"}

Min(a, b) == IF a < b THEN a ELSE b

(***************************************************************************)
(* Byte strings used as inputs.                                            *)
(***************************************************************************)
Empty == << >>
Bytes(n, first) == [i \in 1..n |-> first + (i % 26)]
Str_a1 == <<97, 49>>
Str_boom == <<98, 111, 111, 109>>
Str_cpu == <<99, 112, 117>>
Str_src == <<115, 114, 99>>
Str_k == <<107, 45>>
LongSource == Bytes(usualCutoff + 1, 65)
\* 99 letters and U+00E9 (two bytes): the cut at 100 falls inside the rune
SplitSource == Bytes(usualCutoff - 1, 65) \o <<195, 169>>
LongText == Bytes(usualCutoff + 2, 97)
LongID == Bytes(MessageKeyCutoff + 1, 97)
LongMessage == Bytes(DescriptionCutoff + 1, 65)

(***************************************************************************)
(* Config (the value held by Service.configValue).                         *)
(***************************************************************************)
MkConfig(en, url, user, pass, src) ==
    [Enabled |-> en, URL |-> url, Username |-> user, Password |-> pass, Source |-> src]

CfgA == MkConfig(TRUE, "https://sn.example/api", "cu", "cp", Str_src)
CfgB == MkConfig(TRUE, "https://sn2.example/api", "cu2", "cp2", LongSource)
CfgOff == MkConfig(FALSE, "https://sn.example/api", "cu", "cp", Str_src)
CfgNoAuth == MkConfig(TRUE, "https://sn.example/api", "", "", Empty)

(***************************************************************************)
(* neturl.Parse on the URL strings of the model: the ones it rejects.  The  *)
(* others are in the form u.String() gives back.                           *)
(***************************************************************************)
MalformedURLs == {":bad"}
URLs == {"", "https://sn.example/api", "https://hc.example/api", ":bad"}

(***************************************************************************)
(* Errors.  NoError is Go's nil error.                                     *)
(***************************************************************************)
NoError == [kind |-> "nil"]
Text(s) == [text |-> s]
ErrorsNew(message) == [kind |-> "msg", msg |-> message]
ErrDisabled == ErrorsNew(Text("service is not enabled"))
ErrURL(url) == [kind |-> "url", url |-> url]
ErrParse(name) == [kind |-> "template-parse", name |-> name]
ErrTransport == [kind |-> "transport"]
ErrRead == [kind |-> "body-read"]

(***************************************************************************)
(* Templates.  A template source is the sequence of items the text/template*)
(* lexer splits it into: literal text, a field action {{.F}}, or an action *)
(* that is never closed.  The empty sequence is the empty source string.   *)
(***************************************************************************)
Lit(s) == [t |-> "text", f |-> "", s |-> s]
Field(f) == [t |-> "field", f |-> f, s |-> Empty]
Unclosed == [t |-> "unclosed", f |-> "", s |-> Empty]

\* text.New(name).Parse(template): an unclosed action is a parse error
ParseOK(template) == \A i \in 1..Len(template) : template[i].t # "unclosed"

\* dataInfo{ID, Name, TaskName}; Fields and Tags are not referenced by the
\* templates of the model
MkDataInfo(alertID, data) == [ID |-> alertID, Name |-> data.Name, TaskName |-> data.TaskName]

\* templateImpl.Execute(&buffer, &dataInfo): items are written to the buffer in
\* order; a field dataInfo does not have stops the execution with an error and
\* leaves what was written before it in the buffer
RECURSIVE Execute(_, _, _, _)
Execute(template, i, info, buffer) ==
    IF i > Len(template) THEN [buffer |-> buffer, ok |-> TRUE]
    ELSE IF template[i].t = "text"
         THEN Execute(template, i + 1, info, buffer \o template[i].s)
         ELSE IF template[i].f \in DOMAIN info
              THEN Execute(template, i + 1, info, buffer \o info[template[i].f])
              ELSE [buffer |-> buffer, ok |-> FALSE]

ParseEvent(name) == [ev |-> "parse", name |-> name, ok |-> TRUE]
ParseFailEvent(name) == [ev |-> "parse", name |-> name, ok |-> FALSE]
ExecuteEvent(name, ok) == [ev |-> "execute", name |-> name, ok |-> ok]

\* render without the fast path for an empty template: the empty source is
\* parsed and executed like any other
renderNoFastPath(name, template, info) ==
    IF ~ParseOK(template)
    THEN [out |-> Empty, err |-> ErrParse(name), events |-> <<ParseFailEvent(name)>>]
    ELSE LET x == Execute(template, 1, info, Empty)
         IN  [out |-> x.buffer, err |-> NoError,
              events |-> <<ParseEvent(name), ExecuteEvent(name, x.ok)>>]

\* The render closure: the rendered string, the error returned, and the calls
\* made on the template engine.  The value Execute returns is dropped, and the
\* err tested after it is still Parse's (nil there).
render(name, template, info) ==
    IF template # Empty
    THEN IF ~ParseOK(template)
         THEN [out |-> Empty, err |-> ErrParse(name), events |-> <<ParseFailEvent(name)>>]
         ELSE LET x == Execute(template, 1, info, Empty)
              IN  [out |-> x.buffer, err |-> NoError,
                   events |-> <<ParseEvent(name), ExecuteEvent(name, x.ok)>>]
    ELSE [out |-> Empty, err |-> NoError, events |-> << >>]

\* the five render calls of preparePost, in program order
RenderNames == <<"node", "type", "resource", "metricName", "messageKey">>
RenderTemplate(hc, k) ==
    CASE k = 1 -> hc.Node
      [] k = 2 -> hc.Type
      [] k = 3 -> hc.Resource
      [] k = 4 -> hc.MetricName
      [] OTHER -> hc.MessageKey

(***************************************************************************)
(* preparePost: the pure steps.                                            *)
(***************************************************************************)
\* preparePost without its Enabled test
DisabledNever(cfg) == FALSE
Disabled(cfg) == ~cfg.Enabled

ResolveURL(url, cfg) == IF url = "" THEN cfg.URL ELSE url

ResolveSource(hcSource, cfg) == IF hcSource = Empty THEN cfg.Source ELSE hcSource

\* cutoff that keeps one byte less than max
cutoffOffByOne(text, max) == SubSeq(text, 1, Min(max - 1, Len(text)))
\* text[:int(math.Min(float64(max), float64(len(text))))]
cutoff(text, max) == SubSeq(text, 1, Min(max, Len(text)))

\* the message key without the fallback to the alert ID
MessageKeyNoFallback(messageKey, alertID) == messageKey
MessageKeyOrID(messageKey, alertID) == IF messageKey = Empty THEN alertID ELSE messageKey

\* the severity switch with case alert.OK not falling through to alert.Info
SeverityNoFallthrough(level) ==
    CASE level = Info -> 5
      [] level = Warning -> 4
      [] level = Critical -> 1
      [] OTHER -> 0
Severity(level) ==
    CASE level = OK -> 5
      [] level = Info -> 5
      [] level = Warning -> 4
      [] level = Critical -> 1
      [] OTHER -> 0

\* strconv.Itoa: the decimal digits as bytes, '-' first for a negative number
RECURSIVE Digits(_)
Digits(n) == IF n < 10 THEN <<48 + n>> ELSE Digits(n \div 10) \o <<48 + (n % 10)>>
Itoa(n) == IF n < 0 THEN <<45>> \o Digits(0 - n) ELSE Digits(n)

\* instance := &Alert{...}
Instance(source, rendered, messageKey, level, message) ==
    [Source |-> cutoff(source, usualCutoff),
     Node |-> cutoff(rendered[1], usualCutoff),
     Type |-> cutoff(rendered[2], usualCutoff),
     Resource |-> cutoff(rendered[3], usualCutoff),
     MetricName |-> cutoff(rendered[4], usualCutoff),
     MessageKey |-> cutoff(messageKey, MessageKeyCutoff),
     Severity |-> Itoa(Severity(level)),
     Description |-> cutoff(message, DescriptionCutoff)]

NoInstance ==
    [Source |-> Empty, Node |-> Empty, Type |-> Empty, Resource |-> Empty,
     MetricName |-> Empty, MessageKey |-> Empty, Severity |-> Empty,
     Description |-> Empty]

\* utf8.DecodeRune at s[j:]: the number of bytes of the rune encoded there,
\* 0 when the bytes there are no valid encoding
IsCont(s, i) == i <= Len(s) /\ s[i] \in 128..191
InRange(s, i, lo, hi) == i <= Len(s) /\ s[i] \in lo..hi
RuneLen(s, j) ==
    CASE s[j] < 128 -> 1
      [] s[j] \in 194..223 -> IF IsCont(s, j + 1) THEN 2 ELSE 0
      [] s[j] \in 224..239 ->
            IF /\ InRange(s, j + 1, IF s[j] = 224 THEN 160 ELSE 128,
                                   IF s[j] = 237 THEN 159 ELSE 191)
               /\ IsCont(s, j + 2)
            THEN 3 ELSE 0
      [] s[j] \in 240..244 ->
            IF /\ InRange(s, j + 1, IF s[j] = 240 THEN 144 ELSE 128,
                                   IF s[j] = 244 THEN 143 ELSE 191)
               /\ IsCont(s, j + 2) /\ IsCont(s, j + 3)
            THEN 4 ELSE 0
      [] OTHER -> 0
\* byte i belongs to a valid rune: it starts one, or one that starts up to
\* three bytes before it reaches it
InValidRune(s, i) ==
    \/ RuneLen(s, i) > 0
    \/ \E j \in (IF i > 3 THEN i - 3 ELSE 1)..(i - 1) : RuneLen(s, j) > i - j
ReplacementChar == <<239, 191, 189>>
RECURSIVE CoerceRange(_, _, _)
CoerceRange(s, lo, hi) ==
    IF lo > hi THEN << >>
    ELSE IF lo = hi
         THEN IF InValidRune(s, lo) THEN <<s[lo]>> ELSE ReplacementChar
         ELSE CoerceRange(s, lo, (lo + hi) \div 2)
              \o CoerceRange(s, (lo + hi) \div 2 + 1, hi)
\* The string a JSON string literal written by encoding/json denotes: every
\* byte that is not part of a valid UTF-8 encoding is written as \ufffd; the
\* other bytes are written as themselves or as escapes that denote them.
JSONString(s) ==
    IF \A i \in 1..Len(s) : InValidRune(s, i) THEN s ELSE CoerceRange(s, 1, Len(s))

\* json.Marshal(instance): the object's members in the order of the struct's
\* fields, each under the name its json tag gives.
Member(name, value) == [name |-> name, value |-> JSONString(value)]
Marshal(instance) ==
    <<Member("source", instance.Source), Member("node", instance.Node),
      Member("type", instance.Type), Member("resource", instance.Resource),
      Member("metric_name", instance.MetricName),
      Member("message_key", instance.MessageKey),
      Member("severity", instance.Severity),
      Member("description", instance.Description)>>

(***************************************************************************)
(* Alert: the request and the response.                                    *)
(***************************************************************************)
NoAuth == [set |-> FALSE, user |-> "", pass |-> ""]
\* if c.Username != "" && c.Password != "" { req.SetBasicAuth(...) }
BasicAuth(cfg) ==
    IF cfg.Username # "" /\ cfg.Password # ""
    THEN [set |-> TRUE, user |-> cfg.Username, pass |-> cfg.Password]
    ELSE NoAuth

NoRequest == [url |-> "", body |-> << >>, auth |-> NoAuth]

\* A response body: its JSON form and, for an object, its fields in order.
\* key is the field's name, as bytes; vt is the JSON type of its value; s its
\* value when it is a string.
MkField(key, vt, s) == [key |-> key, vt |-> vt, s |-> s]
MkBody(form, fields) == [form |-> form, fields |-> fields]
NoBody == MkBody("empty", << >>)

\* the json tag of response.Error: "error"
ErrorTag == <<101, 114, 114, 111, 114>>
\* b & caseMask, caseMask = ^0x20: the byte with its bit 0x20 cleared
ClearCaseBit(b) == IF (b \div 32) % 2 = 1 THEN b - 32 ELSE b
\* encoding/json's fold for a tag made of letters: the same length and, byte
\* by byte, equal but for the bit 0x20
EqualFold(a, b) ==
    /\ Len(a) = Len(b)
    /\ \A i \in 1..Len(a) : ClearCaseBit(a[i]) = ClearCaseBit(b[i])
\* a decoder that matches the field name exactly
MatchesExactly(key) == key = ErrorTag
\* an object key is matched to the struct field tagged "error" by exact name
\* or, failing that, by fold
MatchesErrorField(key) == key = ErrorTag \/ EqualFold(ErrorTag, key)

\* dec.Decode(r) on r = &response{Error: preset}: only a syntactically valid
\* object is walked; each matching key with a string value assigns r.Error, a
\* null leaves it, a value of another type is skipped (and reported as an
\* error the caller ignores)
RECURSIVE DecodeFields(_, _, _)
DecodeFields(fields, i, rError) ==
    IF i > Len(fields) THEN rError
    ELSE IF MatchesErrorField(fields[i].key) /\ fields[i].vt = "string"
         THEN DecodeFields(fields, i + 1, Text(fields[i].s))
         ELSE DecodeFields(fields, i + 1, rError)
Decode(body, rError) ==
    IF body.form = "object" THEN DecodeFields(body.fields, 1, rError) ELSE rError

Sprintf(code, body) ==
    [format |-> "failed to understand ServiceNow response. code: %d content: %s",
     code |-> code, content |-> body]

\* a range check on the status instead of the equality
IsSuccess(status) == status \in 200..299
IsCreated(status) == status = StatusCreated

\* what client.Do returns: an error, or a response whose body is not read yet
MkResponse(status) ==
    [transportErr |-> FALSE, status |-> status, body |-> NoBody, readOK |-> TRUE]
TransportFailure == [transportErr |-> TRUE, status |-> 0, body |-> NoBody, readOK |-> TRUE]
NoOutcome == [transportErr |-> FALSE, status |-> 0, body |-> NoBody, readOK |-> TRUE]
\* what ioutil.ReadAll(resp.Body) returns: the body, or an error
MkRead(body, readOK) == [body |-> body, readOK |-> readOK]

\* lines 132-145: what Alert returns for a response that is not 201 Created
Rejection(status, rd) ==
    IF ~rd.readOK THEN ErrRead
    ELSE ErrorsNew(Decode(rd.body, Sprintf(status, rd.body)))

\* the values Update is handed: a Config, or a value of another type
ConfigItem(cfg) == [isConfig |-> TRUE, cfg |-> cfg]
OtherItem == [isConfig |-> FALSE, cfg |-> CfgOff]
ErrUpdateLen(l) == [kind |-> "update-len", len |-> l]
ErrUpdateType == [kind |-> "update-type"]

(***************************************************************************)
(* State.                                                                  *)
(***************************************************************************)
VARIABLES
    configValue,   \* Service.configValue: the stored Config
    updateErr,     \* what the last Update returned
    pc,            \* per caller: where its Alert call stands
    args,          \* per caller: the arguments of its Alert call
    c,             \* per caller: preparePost's c := s.config()
    u,             \* per caller: the URL preparePost resolved and parsed
    rendered,      \* per caller: node, metricType, resource, metricName, messageKey so far
    post,          \* per caller: the Alert struct (instance) preparePost built
    c2,            \* per caller: Alert's own c := s.config() (line 120)
    req,           \* per caller: the request handed to client.Do
    resp,          \* per caller: what client.Do produced
    err,           \* per caller: the error the call returned
    log,           \* per caller: the Parse and Execute calls made, in order
    sent           \* per caller: the requests the transport was handed

vars == <<configValue, updateErr, pc, args, c, u, rendered, post, c2, req, resp, err, log, sent>>

MkHC(user, pass, source, node, type, resource, metricName, messageKey) ==
    [Username |-> user, Password |-> pass, Source |-> source, Node |-> node,
     Type |-> type, Resource |-> resource, MetricName |-> metricName,
     MessageKey |-> messageKey]
MkData(name, taskName) == [Name |-> name, TaskName |-> taskName]
MkArgs(url, alertID, message, level, data, hc) ==
    [url |-> url, alertID |-> alertID, message |-> message, level |-> level,
     data |-> data, hc |-> hc]

NoHC == MkHC("", "", Empty, Empty, Empty, Empty, Empty, Empty)
NoArgs == MkArgs("", Empty, Empty, OK, MkData(Empty, Empty), NoHC)

InitOver(configs) ==
    /\ configValue \in configs
    /\ updateErr = NoError
    /\ pc = [p \in Callers |-> "idle"]
    /\ args = [p \in Callers |-> NoArgs]
    /\ c = [p \in Callers |-> CfgOff]
    /\ u = [p \in Callers |-> ""]
    /\ rendered = [p \in Callers |-> << >>]
    /\ post = [p \in Callers |-> NoInstance]
    /\ c2 = [p \in Callers |-> CfgOff]
    /\ req = [p \in Callers |-> NoRequest]
    /\ resp = [p \in Callers |-> NoOutcome]
    /\ err = [p \in Callers |-> NoError]
    /\ log = [p \in Callers |-> << >>]
    /\ sent = [p \in Callers |-> << >>]

\* Update(newConfig)
Update(newConfig) ==
    /\ IF Len(newConfig) # 1
       THEN /\ updateErr' = ErrUpdateLen(Len(newConfig))
            /\ UNCHANGED configValue
       ELSE IF ~newConfig[1].isConfig
            THEN /\ updateErr' = ErrUpdateType
                 /\ UNCHANGED configValue
            ELSE /\ configValue' = newConfig[1].cfg
                 /\ updateErr' = NoError
    /\ UNCHANGED <<pc, args, c, u, rendered, post, c2, req, resp, err, log, sent>>

\* Alert is entered and preparePost runs up to the first render call: the
\* config load, the Enabled test, the URL fallback and neturl.Parse
AlertBegin(p, a) ==
    /\ pc[p] = "idle"
    /\ args' = [args EXCEPT ![p] = a]
    /\ c' = [c EXCEPT ![p] = configValue]
    /\ IF Disabled(configValue)
       THEN /\ err' = [err EXCEPT ![p] = ErrDisabled]
            /\ pc' = [pc EXCEPT ![p] = "done"]
            /\ UNCHANGED u
       ELSE IF ResolveURL(a.url, configValue) \in MalformedURLs
            THEN /\ err' = [err EXCEPT ![p] = ErrURL(ResolveURL(a.url, configValue))]
                 /\ pc' = [pc EXCEPT ![p] = "done"]
                 /\ UNCHANGED u
            ELSE /\ u' = [u EXCEPT ![p] = ResolveURL(a.url, configValue)]
                 /\ pc' = [pc EXCEPT ![p] = "render"]
                 /\ UNCHANGED err
    /\ UNCHANGED <<configValue, updateErr, rendered, post, c2, req, resp, log, sent>>

\* the next of the five render calls, and the err test after it
Render(p) ==
    /\ pc[p] = "render"
    /\ LET k == Len(rendered[p]) + 1
           r == render(RenderNames[k], RenderTemplate(args[p].hc, k),
                       MkDataInfo(args[p].alertID, args[p].data))
       IN  /\ log' = [log EXCEPT ![p] = @ \o r.events]
           /\ IF r.err # NoError
              THEN /\ err' = [err EXCEPT ![p] = r.err]
                   /\ pc' = [pc EXCEPT ![p] = "done"]
                   /\ UNCHANGED rendered
              ELSE /\ rendered' = [rendered EXCEPT ![p] = Append(@, r.out)]
                   /\ pc' = [pc EXCEPT ![p] = IF k = Len(RenderNames) THEN "build" ELSE "render"]
                   /\ UNCHANGED err
    /\ UNCHANGED <<configValue, updateErr, args, c, u, post, c2, req, resp, sent>>

\* the rest of preparePost: message key fallback, severity, the Alert struct
Build(p) ==
    /\ pc[p] = "build"
    /\ post' = [post EXCEPT ![p] =
                  Instance(ResolveSource(args[p].hc.Source, c[p]), rendered[p],
                           MessageKeyOrID(rendered[p][5], args[p].alertID),
                           args[p].level, args[p].message)]
    /\ pc' = [pc EXCEPT ![p] = "request"]
    /\ UNCHANGED <<configValue, updateErr, args, c, u, rendered, c2, req, resp, err, log, sent>>

\* Alert lines 114-123: the request, the second config load, the credentials
NewRequest(p) ==
    /\ pc[p] = "request"
    /\ c2' = [c2 EXCEPT ![p] = configValue]
    /\ req' = [req EXCEPT ![p] = [url |-> u[p], body |-> Marshal(post[p]), auth |-> BasicAuth(configValue)]]
    /\ pc' = [pc EXCEPT ![p] = "do"]
    /\ UNCHANGED <<configValue, updateErr, args, c, u, rendered, post, resp, err, log, sent>>

\* client.Do is called: the request is with the transport, and Alert waits
Do(p) ==
    /\ pc[p] = "do"
    /\ sent' = [sent EXCEPT ![p] = Append(@, req[p])]
    /\ pc' = [pc EXCEPT ![p] = "in-flight"]
    /\ UNCHANGED <<configValue, updateErr, args, c, u, rendered, post, c2, req, resp, err, log>>

\* client.Do returns (lines 125-131): an error, or a response and the test of
\* its status
DoReturn(p, o) ==
    /\ pc[p] = "in-flight"
    /\ resp' = [resp EXCEPT ![p] = o]
    /\ IF o.transportErr
       THEN /\ err' = [err EXCEPT ![p] = ErrTransport]
            /\ pc' = [pc EXCEPT ![p] = "done"]
       ELSE IF ~IsCreated(o.status)
            THEN /\ pc' = [pc EXCEPT ![p] = "read"]
                 /\ UNCHANGED err
            ELSE /\ err' = [err EXCEPT ![p] = NoError]
                 /\ pc' = [pc EXCEPT ![p] = "done"]
    /\ UNCHANGED <<configValue, updateErr, args, c, u, rendered, post, c2, req, log, sent>>

\* ioutil.ReadAll returns (lines 132-145): the body is decoded and the error
\* is returned
ReadAll(p, rd) ==
    /\ pc[p] = "read"
    /\ resp' = [resp EXCEPT ![p] = [@ EXCEPT !.body = rd.body, !.readOK = rd.readOK]]
    /\ err' = [err EXCEPT ![p] = Rejection(resp[p].status, rd)]
    /\ pc' = [pc EXCEPT ![p] = "done"]
    /\ UNCHANGED <<configValue, updateErr, args, c, u, rendered, post, c2, req, log, sent>>

\* the call has returned; the caller is free to call again
Return(p) ==
    /\ pc[p] = "done"
    /\ pc' = [pc EXCEPT ![p] = "idle"]
    /\ args' = [args EXCEPT ![p] = NoArgs]
    /\ c' = [c EXCEPT ![p] = CfgOff]
    /\ u' = [u EXCEPT ![p] = ""]
    /\ rendered' = [rendered EXCEPT ![p] = << >>]
    /\ post' = [post EXCEPT ![p] = NoInstance]
    /\ c2' = [c2 EXCEPT ![p] = CfgOff]
    /\ req' = [req EXCEPT ![p] = NoRequest]
    /\ resp' = [resp EXCEPT ![p] = NoOutcome]
    /\ err' = [err EXCEPT ![p] = NoError]
    /\ log' = [log EXCEPT ![p] = << >>]
    /\ sent' = [sent EXCEPT ![p] = << >>]
    /\ UNCHANGED <<configValue, updateErr>>

NextOver(callers, argSet, outcomes, reads, updates) ==
    \/ \E n \in updates : Update(n)
    \/ \E p \in callers, a \in argSet : AlertBegin(p, a)
    \/ \E p \in callers : Render(p)
    \/ \E p \in callers : Build(p)
    \/ \E p \in callers : NewRequest(p)
    \/ \E p \in callers : Do(p)
    \/ \E p \in callers, o \in outcomes : DoReturn(p, o)
    \/ \E p \in callers, rd \in reads : ReadAll(p, rd)
    \/ \E p \in callers : Return(p)

(***************************************************************************)
(* Inputs.                                                                 *)
(***************************************************************************)
T_Empty == << >>
T_Name == <<Field("Name")>>
T_ID == <<Field("ID")>>
T_KeyID == <<Lit(Str_k), Field("ID")>>
T_Missing == <<Lit(Str_a1), Field("Missing"), Lit(Str_boom)>>
T_MissingFirst == <<Field("Missing"), Lit(Str_boom)>>
T_Bad == <<Lit(Str_a1), Unclosed>>
T_Long == <<Lit(LongText)>>

Levels == (OK - 1)..(Critical + 1)
Data == MkData(Str_cpu, Str_boom)
NoName == MkData(Empty, Str_boom)

BaseArgs == MkArgs("", Str_a1, Str_boom, Critical, Data, NoHC)

\* two goroutines call Alert while the configuration is updated
ConcArgs ==
    { BaseArgs,
      MkArgs("https://hc.example/api", Str_a1, Str_boom, Warning, Data,
             MkHC("hu", "hp", Str_src, T_Empty, T_Empty, T_Empty, T_Empty, T_KeyID)) }
ConcConfigs == {CfgA, CfgB, CfgOff}
ConcUpdates == {<<ConfigItem(cfg)>> : cfg \in ConcConfigs} \cup {<< >>}
Body_badRequest == MkBody("object", <<MkField(ErrorTag, "string", "bad request")>>)
ConcOutcomes == {MkResponse(StatusCreated), MkResponse(500)}
ConcReads == {MkRead(Body_badRequest, TRUE)}

Init == InitOver({CfgA, CfgOff})
Next == NextOver(Callers, ConcArgs, ConcOutcomes, ConcReads, ConcUpdates)
Spec == Init /\ [][Next]_vars

\* one call at a time, over the handler configurations, alerts and levels
FieldTemplates == {T_Empty, T_KeyID, T_Missing, T_Bad}
KeyTemplates == {T_Empty, T_Name, T_KeyID, T_MissingFirst, T_Bad}
TemplateArgs ==
    { MkArgs("", Str_a1, Str_boom, Critical, NoName,
             MkHC("", "", Empty, n, t, r, m, k)) :
        n \in FieldTemplates, t \in FieldTemplates, r \in FieldTemplates,
        m \in FieldTemplates, k \in KeyTemplates }
StringArgs ==
    { MkArgs("", id, Str_boom, Warning, MkData(name, Str_boom),
             MkHC("", "", Empty, n, T_Long, T_KeyID, T_Name, k)) :
        id \in {Str_a1, LongID}, name \in {Empty, Str_cpu},
        n \in {T_Empty, T_Long, T_ID}, k \in {T_Empty, T_Name, T_KeyID} }
    \cup
    { MkArgs("", Str_a1, msg, Info, Data,
             MkHC("", "", src, T_KeyID, T_Empty, T_Empty, T_Empty, T_Empty)) :
        msg \in {Str_boom, LongMessage}, src \in {Empty, Str_src, LongSource, SplitSource} }
LevelArgs == { MkArgs("", Str_a1, Str_boom, l, Data, NoHC) : l \in Levels }
URLArgs == { MkArgs(url, Str_a1, Str_boom, OK, Data, NoHC) : url \in URLs }
PrepareArgs == TemplateArgs \cup StringArgs \cup LevelArgs \cup URLArgs
PrepareUpdates == {<<ConfigItem(CfgB)>>, <<ConfigItem(CfgA), ConfigItem(CfgB)>>}
PrepareOutcomes == {MkResponse(StatusCreated), MkResponse(500)}
PrepareReads == {MkRead(Body_badRequest, TRUE)}

InitPrepare == InitOver({CfgA})
NextPrepare == NextOver({"g1"}, PrepareArgs, PrepareOutcomes, PrepareReads, PrepareUpdates)
SpecPrepare == InitPrepare /\ [][NextPrepare]_vars

\* one call at a time, over the responses of the transport
MaxFields == 2
Key_Error == <<69, 114, 114, 111, 114>>
Key_eRRoR == <<101, 82, 82, 111, 82>>
Key_message == <<109, 101, 115, 115, 97, 103, 101>>
FieldValues ==
    { MkField(ErrorTag, "string", s) : s \in {"bad request", ""} }
    \cup { MkField(ErrorTag, vt, "") : vt \in {"number", "null"} }
    \cup { MkField(Key_Error, "string", "denied"), MkField(Key_eRRoR, "string", "mixed"),
           MkField(Key_message, "string", "bad request") }
RECURSIVE SeqsUpTo(_, _)
SeqsUpTo(S, n) ==
    IF n = 0 THEN {<< >>}
    ELSE LET shorter == SeqsUpTo(S, n - 1)
         IN  shorter \cup { Append(q, x) : q \in shorter, x \in S }
Bodies ==
    { MkBody("object", fs) : fs \in SeqsUpTo(FieldValues, MaxFields) }
    \cup { MkBody(form, << >>) : form \in {"garbage", "empty", "null", "array"} }
Statuses == {200, StatusCreated, 500}
TransportOutcomes == { MkResponse(st) : st \in Statuses } \cup {TransportFailure}
TransportReads == { MkRead(b, ok) : b \in Bodies, ok \in BOOLEAN }
TransportUpdates == {<<ConfigItem(CfgNoAuth)>>, <<OtherItem>>}

InitTransport == InitOver({CfgA})
NextTransport == NextOver({"g1"}, {BaseArgs}, TransportOutcomes, TransportReads, TransportUpdates)
SpecTransport == InitTransport /\ [][NextTransport]_vars

(***************************************************************************)
(* Properties.                                                             *)
(***************************************************************************)
\* preparePost has returned the marshalled Alert struct of caller p
Built(p) ==
    /\ Len(rendered[p]) = Len(RenderNames)
    /\ pc[p] \in {"request", "do", "in-flight", "read", "done"}
\* the request of caller p has been set up (Alert line 123 is passed)
RequestReady(p) == Built(p) /\ pc[p] # "request"
\* client.Do of caller p returned a response
Responded(p) == pc[p] = "done" /\ sent[p] # << >> /\ ~resp[p].transportErr
IsPrefix(f, v, limit) ==
    /\ Len(f) = Min(limit, Len(v))
    /\ \A i \in 1..Len(f) : f[i] = v[i]

\* C1: a call that read a configuration with Enabled=false returns the
\* "service is not enabled" error at once: no template was parsed or executed
\* and no HTTP request was issued, whatever its arguments.
C1_DisabledDoesNothing ==
    \A p \in Callers :
        (pc[p] # "idle" /\ ~c[p].Enabled) =>
            /\ pc[p] = "done"
            /\ err[p] = ErrDisabled
            /\ log[p] = << >>
            /\ sent[p] = << >>
C1_Witness ==
    \E p \in Callers :
        /\ pc[p] = "done" /\ ~c[p].Enabled /\ err[p] = ErrDisabled
        /\ args[p].hc.MessageKey # Empty /\ args[p].hc.Username # ""

\* C2: the credentials on the request of a call are those of the Config the
\* call read at its start (the one preparePost took Enabled, URL and Source
\* from), whatever Update did meanwhile.
C2_OneSnapshot ==
    \A p \in Callers :
        RequestReady(p) =>
            /\ req[p].auth.set =>
                  /\ req[p].auth.user = c[p].Username
                  /\ req[p].auth.pass = c[p].Password
            /\ ~req[p].auth.set => (c[p].Username = "" \/ c[p].Password = "")

\* C3: the request carries the handler override's credentials when both are
\* non-empty, else the configuration's, and none when those are empty too.
C3_CredentialResolution ==
    \A p \in Callers :
        RequestReady(p) =>
            req[p].auth =
                IF args[p].hc.Username # "" /\ args[p].hc.Password # ""
                THEN [set |-> TRUE, user |-> args[p].hc.Username, pass |-> args[p].hc.Password]
                ELSE IF c2[p].Username # "" /\ c2[p].Password # ""
                     THEN [set |-> TRUE, user |-> c2[p].Username, pass |-> c2[p].Password]
                     ELSE NoAuth

\* C4: a call whose POST got a response returns nil exactly when the status
\* is 201; any other status, other 2xx included, gives a non-nil error.
C4_OnlyCreatedSucceeds ==
    \A p \in Callers :
        Responded(p) => ((err[p] = NoError) <=> (resp[p].status = 201))
C4_Witness ==
    \E p \in Callers :
        /\ Responded(p) /\ resp[p].status = 200 /\ err[p] # NoError
        /\ resp[p].body = NoBody /\ resp[p].readOK

\* the name "error", and a name that spells it in some letter case
NameError == <<101, 114, 114, 111, 114>>
ErrorLetters == <<{101, 69}, {114, 82}, {114, 82}, {111, 79}, {114, 82}>>
IsErrorAnyCase(key) ==
    Len(key) = Len(ErrorLetters) /\ \A i \in 1..Len(key) : key[i] \in ErrorLetters[i]
\* the fields of a body that are named "error" and hold a string
ErrorStrings(body) ==
    {i \in 1..Len(body.fields) : body.fields[i].key = NameError /\ body.fields[i].vt = "string"}
\* the same, the name compared without regard to letter case
ErrorStringsAnyCase(body) ==
    {i \in 1..Len(body.fields) :
        IsErrorAnyCase(body.fields[i].key) /\ body.fields[i].vt = "string"}
HasErrorField(body) == \E i \in 1..Len(body.fields) : body.fields[i].key = NameError
Last(S) == CHOOSE i \in S : \A j \in S : j <= i
Rejected(p) == Responded(p) /\ resp[p].status # 201 /\ resp[p].readOK

\* C5 as stated: for a status other than 201 with a readable body, a JSON
\* object with a string field "error" gives that string as the message, and a
\* body that does not decode or has no "error" field gives the synthesized
\* message with the status code and the body.
C5_DecodedOrSynthesized ==
    \A p \in Callers :
        Rejected(p) =>
            /\ (resp[p].body.form = "object" /\ ErrorStrings(resp[p].body) # {}) =>
                  \E i \in ErrorStrings(resp[p].body) :
                      err[p] = ErrorsNew(Text(resp[p].body.fields[i].s))
            /\ (resp[p].body.form # "object" \/ ~HasErrorField(resp[p].body)) =>
                  err[p] = ErrorsNew(Sprintf(resp[p].status, resp[p].body))

\* C5 amended: the field is found by its name without regard to letter case,
\* and the last such string field gives the message; a body that does not
\* decode as an object, or has no such string field, gives the synthesized
\* message with the status code and the body.
C5_DecodedAnyCaseOrSynthesized ==
    \A p \in Callers :
        Rejected(p) =>
            IF resp[p].body.form = "object" /\ ErrorStringsAnyCase(resp[p].body) # {}
            THEN err[p] = ErrorsNew(Text(resp[p].body.fields[Last(ErrorStringsAnyCase(resp[p].body))].s))
            ELSE /\ err[p] = ErrorsNew(Sprintf(resp[p].status, resp[p].body))
                 /\ err[p].msg.code = resp[p].status
                 /\ err[p].msg.content = resp[p].body
C5_Witness ==
    \E p \in Callers :
        /\ Rejected(p) /\ resp[p].status = 500
        /\ resp[p].body = MkBody("object", <<MkField(Key_Error, "string", "denied"),
                                             MkField(Key_eRRoR, "string", "mixed")>>)
        /\ err[p] = ErrorsNew(Text("mixed"))

\* the fields of caller p whose Execute returned an error, and that error
ExecFailures(p) == {i \in 1..Len(log[p]) : log[p][i].ev = "execute" /\ ~log[p][i].ok}
ExecError(name) == [kind |-> "template-exec", name |-> name]

\* C6: when executing a parsed template raised an error, the call fails with
\* that error and issues no HTTP request.
C6_ExecErrorPropagated ==
    \A p \in Callers :
        ExecFailures(p) # {} =>
            /\ pc[p] = "done"
            /\ \E i \in ExecFailures(p) : err[p] = ExecError(log[p][i].name)
            /\ sent[p] = << >>

\* C7 as stated: when the rendered message key is empty, message_key is the
\* alert ID, however long the ID.
C7_EmptyKeyIsAlertID ==
    \A p \in Callers :
        (Built(p) /\ rendered[p][5] = Empty) => post[p].MessageKey = args[p].alertID

\* C7 amended: when the rendered message key is empty, message_key is the
\* first min(1024, length) bytes of the alert ID: the ID itself when it has at
\* most 1024 bytes.
C7_EmptyKeyIsAlertIDCut ==
    \A p \in Callers :
        (Built(p) /\ rendered[p][5] = Empty) =>
            /\ IsPrefix(post[p].MessageKey, args[p].alertID, 1024)
            /\ Len(args[p].alertID) <= 1024 => post[p].MessageKey = args[p].alertID
C7_Witness ==
    \E p \in Callers :
        /\ Built(p) /\ rendered[p][5] = Empty
        /\ args[p].hc.MessageKey # Empty
        /\ Len(args[p].alertID) > 1024
        /\ Len(post[p].MessageKey) = 1024

\* the values the fields are cut from
SourceValue(p) == IF args[p].hc.Source = Empty THEN c[p].Source ELSE args[p].hc.Source
MessageKeyValue(p) == IF rendered[p][5] = Empty THEN args[p].alertID ELSE rendered[p][5]
IsCut(f, v, limit) ==
    /\ IsPrefix(f, v, limit)
    /\ Len(f) <= limit
    /\ Len(v) <= limit => f = v
    /\ cutoff(f, limit) = f

\* C8: every text field of the notification is the prefix of its value of
\* length min(limit, length): 100 for source, node, type, resource and
\* metric_name, 1024 for message_key, 4000 for description; a shorter value is
\* unchanged, and cutting the field again changes nothing.
C8_FieldsAreCut ==
    \A p \in Callers :
        Built(p) =>
            /\ IsCut(post[p].Source, SourceValue(p), 100)
            /\ IsCut(post[p].Node, rendered[p][1], 100)
            /\ IsCut(post[p].Type, rendered[p][2], 100)
            /\ IsCut(post[p].Resource, rendered[p][3], 100)
            /\ IsCut(post[p].MetricName, rendered[p][4], 100)
            /\ IsCut(post[p].MessageKey, MessageKeyValue(p), 1024)
            /\ IsCut(post[p].Description, args[p].message, 4000)
C8_Witness ==
    \E p \in Callers :
        /\ Built(p)
        /\ Len(args[p].message) > 4000 /\ Len(post[p].Description) = 4000
        /\ Len(SourceValue(p)) > 100 /\ Len(post[p].Source) = 100
        /\ Len(rendered[p][1]) < 100 /\ post[p].Node = rendered[p][1] /\ post[p].Node # Empty

\* C9: severity is "5" for OK and Info, "4" for Warning, "1" for Critical and
\* "0" for any other level; "2" and "3" never appear.
C9_SeverityTable ==
    \A p \in Callers :
        Built(p) =>
            /\ post[p].Severity =
                  CASE args[p].level \in {OK, Info} -> <<53>>
                    [] args[p].level = Warning -> <<52>>
                    [] args[p].level = Critical -> <<49>>
                    [] OTHER -> <<48>>
            /\ post[p].Severity \notin {<<50>>, <<51>>}
C9_Witness ==
    \E p \in Callers :
        Built(p) /\ args[p].level \notin {OK, Info, Warning, Critical} /\ post[p].Severity = <<48>>

NameIndex(name) == CHOOSE k \in 1..Len(RenderNames) : RenderNames[k] = name
Compiles(template) == \A i \in 1..Len(template) : template[i] # Unclosed
\* the fields of caller p's handler whose non-empty template does not compile
BadFields(p) ==
    {k \in 1..Len(RenderNames) :
        RenderTemplate(args[p].hc, k) # Empty /\ ~Compiles(RenderTemplate(args[p].hc, k))}
First(S) == CHOOSE i \in S : \A j \in S : i <= j
\* the call of caller p got as far as rendering
Rendering(p) == pc[p] # "idle" /\ c[p].Enabled /\ err[p].kind # "url"

\* C10: templates are parsed and executed in the order node, type, resource,
\* metric name, message key; an empty template is never parsed; and when the
\* first non-empty template that does not compile is field k, nothing after k
\* is parsed or executed, k is not executed, no request is issued, and the
\* call returns k's compile error.
C10_CompileErrorAborts ==
    \A p \in Callers :
        /\ \A i \in 1..Len(log[p]) :
              /\ RenderTemplate(args[p].hc, NameIndex(log[p][i].name)) # Empty
              /\ \A j \in 1..Len(log[p]) :
                    i < j => \/ NameIndex(log[p][i].name) < NameIndex(log[p][j].name)
                             \/ /\ j = i + 1
                                /\ log[p][i].name = log[p][j].name
                                /\ log[p][i].ev = "parse" /\ log[p][j].ev = "execute"
        /\ (Rendering(p) /\ BadFields(p) # {}) =>
              /\ \A i \in 1..Len(log[p]) :
                    /\ NameIndex(log[p][i].name) <= First(BadFields(p))
                    /\ NameIndex(log[p][i].name) = First(BadFields(p)) => log[p][i].ev = "parse"
              /\ sent[p] = << >>
              /\ pc[p] \in {"render", "done"}
              /\ pc[p] = "done" => err[p] = ErrParse(RenderNames[First(BadFields(p))])
        /\ (Rendering(p) /\ pc[p] = "done" /\ BadFields(p) = {}) => err[p].kind # "template-parse"
C10_Witness ==
    \E p \in Callers :
        /\ pc[p] = "done" /\ err[p] = ErrParse("resource")
        /\ args[p].hc.Node = Empty /\ args[p].hc.Type # Empty
        /\ args[p].hc.MetricName = T_Bad /\ args[p].hc.MessageKey # Empty
        /\ Len(log[p]) = 3

====
